---- MODULE Spec2Model ----
(***************************************************************************)
(* A model of ploum, a schema-driven object/attribute mapping layer over   *)
(* LDAP: the attribute value model (LDAPAttribute, ArithmeticList), the    *)
(* entity record (LDAPObj with the LDAPHelper mix-in), the change-set      *)
(* builder, the object-class composition (build_composedtype over          *)
(* ComposableType.__add__) and the memoization decorator.                  *)
(*                                                                         *)
(* Python values are modelled structurally.  A scalar is a record          *)
(* [t, c]: t is its Python type ("none", "str", "bytes", "int") and c its  *)
(* code points (the number itself for an int).  A value handed to the      *)
(* program is [isList, items]: a scalar x is Sc(x), a list is Li(<<..>>).  *)
(***************************************************************************)
EXTENDS Integers, Sequences, FiniteSets, TLC

\* ------------------------------------------------------------- bounds
\* operations on the record in one behaviour
MaxOps == 3
\* calls of the memoized build_composedtype in one behaviour
MaxCalls == 2

\* ------------------------------------------------------ Python values
PyNone == [t |-> "none", c |-> <<>>]
PyStr(cs) == [t |-> "str", c |-> cs]
PyBytes(cs) == [t |-> "bytes", c |-> cs]
PyInt(n) == [t |-> "int", c |-> <<n>>]
Sc(x) == [isList |-> FALSE, items |-> <<x>>]
Li(xs) == [isList |-> TRUE, items |-> xs]

\* A list that is itself an element of a list: the list holding the one text
\* with code points cs.
PyList1(cs) == [t |-> "list", c |-> cs]

\* an element of a list, taken out of it (`other[0]`), as a value
as_value(x) == IF x.t = "list" THEN Li(<<PyStr(x.c)>>) ELSE Sc(x)

\* ctrmisctk.utils.is_scalar: None, bytes, str, or anything without __iter__
is_scalar(thing) == ~thing.isList

\* ctrmisctk.utils.debyte on one scalar: bytes are decoded, the rest is kept
debyte1(x) == IF x.t = "bytes" THEN PyStr(x.c) ELSE x

\* ctrmisctk.utils.debyte on any value: a list is not bytes, so it is
\* returned as it is, its elements untouched
debyte(item) == IF is_scalar(item) THEN Sc(debyte1(item.items[1])) ELSE item

\* ctrmisctk.utils.bytify on one scalar: text is encoded, the rest is kept
bytify1(x) == IF x.t = "str" THEN PyBytes(x.c) ELSE x

\* Python truthiness of a value (the `if value:` tests)
Truthy(v) ==
  IF v.isList THEN Len(v.items) > 0
  ELSE LET x == v.items[1] IN
       CASE x.t = "none" -> FALSE
         [] x.t = "int" -> x.c[1] # 0
         [] OTHER -> Len(x.c) > 0

\* whether iter(v) exists: a list, text or bytes; None and int raise TypeError
Iterable(v) == v.isList \/ v.items[1].t \in {"str", "bytes"}

\* the elements iter(v) yields: a list's items, a text's one-character
\* texts, a byte string's integers
IterItems(v) ==
  IF v.isList THEN v.items
  ELSE LET x == v.items[1] IN
       IF x.t = "str" THEN [i \in 1..Len(x.c) |-> PyStr(<<x.c[i]>>)]
       ELSE [i \in 1..Len(x.c) |-> PyInt(x.c[i])]

\* --------------------------------------------------- LDAPAttribute
\* ArithmeticList defines __add__ and no __iadd__, so `lst += other` is
\* list.__iadd__: the list is extended in place with iter(other), with no
\* decoding and no check for elements already held.
list_iadd(lst, other) ==
  IF Iterable(other)
  THEN [err |-> "ok", val |-> Li(lst.items \o IterItems(other))]
  ELSE [err |-> "TypeError", val |-> lst]

\* LDAPAttribute.set_value.  An attribute is its single_value, _value,
\* _dirty and _base_state, and shared: whether _base_state is the very list
\* object _value is, so that a change made in the one shows in the other.
\* Here _value is bound to a new list, _base_state to the old one.
set_value(a, value) ==
  LET a1 == [a EXCEPT !.dirty = TRUE, !.base_state = a.value,
                      !.shared = FALSE] IN
  IF a.single_value
  THEN IF is_scalar(value)
       THEN [a |-> [a1 EXCEPT !.value = value], err |-> "ok"]
       ELSE [a |-> a1, err |-> "ok"]
  ELSE IF Truthy(value)
       THEN LET r == list_iadd(Li(<<>>), value) IN
            [a |-> [a1 EXCEPT !.value = r.val], err |-> r.err]
       ELSE [a |-> [a1 EXCEPT !.value = Li(<<>>)], err |-> "ok"]

\* LDAPAttribute.__init__: _dirty = False, _value = None, set_value(value)
LDAPAttribute(single, value) ==
  set_value([single_value |-> single, value |-> Sc(PyNone), dirty |-> FALSE,
             base_state |-> Sc(PyNone), shared |-> FALSE], value)

\* LDAPAttribute.__add__.  For a multi-valued attribute _base_state is bound
\* to the very list that `+=` then extends in place, so it reads as the new
\* value afterwards.
LDAPAttribute_add(a, other) ==
  LET a1 == [a EXCEPT !.dirty = TRUE, !.base_state = a.value,
                      !.shared = ~a.single_value] IN
  IF a.single_value
  THEN IF ~is_scalar(other)
       THEN IF Len(other.items) = 0
            THEN [a |-> a1, err |-> "IndexError"]
            ELSE [a |-> [a1 EXCEPT !.value = debyte(as_value(other.items[1]))],
                  err |-> "ok"]
       ELSE [a |-> [a1 EXCEPT !.value = debyte(other)], err |-> "ok"]
  ELSE IF Truthy(other)
       THEN LET r == list_iadd(a.value, debyte(other)) IN
            [a |-> [a1 EXCEPT !.value = r.val, !.base_state = r.val],
             err |-> r.err]
       ELSE [a |-> a1, err |-> "ok"]

\* list.remove(x): the first element equal to x leaves the list
list_remove(lst, x) ==
  IF \E n \in 1..Len(lst.items) : lst.items[n] = x
  THEN LET i == CHOOSE n \in 1..Len(lst.items) :
                  /\ lst.items[n] = x
                  /\ \A m \in 1..(n - 1) : lst.items[m] # x
       IN [err |-> "ok",
           val |-> Li(SubSeq(lst.items, 1, i - 1)
                      \o SubSeq(lst.items, i + 1, Len(lst.items)))]
  ELSE [err |-> "ValueError", val |-> lst]

\* a removal in the manner of set.discard: a value not held is no error
ArithmeticList_discard(lst, other) ==
  [err |-> "ok", val |-> list_remove(lst, debyte1(other)).val]

\* ArithmeticList.__sub__, in place on the list lst, other a scalar: the
\* membership test takes other as given, the removal takes debyte(other)
ArithmeticList_sub(lst, other) ==
  IF \E n \in 1..Len(lst.items) : lst.items[n] = other
  THEN list_remove(lst, debyte1(other))
  ELSE [err |-> "ValueError", val |-> lst]

\* `attribute.value - other` for a multi-valued attribute: LDAPAttribute.value
\* hands out the list _value, which __sub__ changes in place
value_sub(a, other) ==
  LET r == ArithmeticList_sub(a.value, other) IN
  [a |-> [a EXCEPT !.value = r.val,
                   !.base_state = IF a.shared THEN r.val ELSE a.base_state],
   err |-> r.err]

\* LDAPAttribute.set_clean
set_clean(a) == [a EXCEPT !.dirty = FALSE]

\* LDAPAttribute.get_base_state: _base_state exists from __init__ on
get_base_state(a) == a.base_state

\* ------------------------------------------------ the record's class
\* The record is an instance of the class get_class() builds for the object
\* class person (must cn, sn; may description, displayName), mixed with
\* LDAPHelper.  displayName is the single-valued attribute type.
must_fields == <<"cn", "sn">>
may_fields == <<"description", "displayName">>

\* attr_types: the declared attribute names, each with its single_value
attr_types ==
  [n \in {"cn", "sn", "description", "displayName", "objectClass"} |->
     n = "displayName"]

\* LDAPObj.virtual_fields
virtual_fields ==
  <<"entryDN", "subschemaSubentry", "modifyTimestamp", "modifiersName",
    "creatorsName", "creatorsTimestamp", "hasSubordinates", "entryCSN",
    "createTimestamp", "structuralObjectClass", "entryUUID", "contextCSN">>

\* str.lower() on the names of the model: the names written with a capital
upper_names ==
  [n \in {"CN", "displayName", "objectClass", "Bogus", "entryDN",
          "subschemaSubentry", "modifyTimestamp", "modifiersName",
          "creatorsName", "creatorsTimestamp", "hasSubordinates", "entryCSN",
          "createTimestamp", "structuralObjectClass", "entryUUID",
          "contextCSN"} |->
     CASE n = "CN" -> "cn"
       [] n = "displayName" -> "displayname"
       [] n = "objectClass" -> "objectclass"
       [] n = "Bogus" -> "bogus"
       [] n = "entryDN" -> "entrydn"
       [] n = "subschemaSubentry" -> "subschemasubentry"
       [] n = "modifyTimestamp" -> "modifytimestamp"
       [] n = "modifiersName" -> "modifiersname"
       [] n = "creatorsName" -> "creatorsname"
       [] n = "creatorsTimestamp" -> "creatorstimestamp"
       [] n = "hasSubordinates" -> "hassubordinates"
       [] n = "entryCSN" -> "entrycsn"
       [] n = "createTimestamp" -> "createtimestamp"
       [] n = "structuralObjectClass" -> "structuralobjectclass"
       [] n = "entryUUID" -> "entryuuid"
       [] n = "contextCSN" -> "contextcsn"]

lower(n) == IF n \in DOMAIN upper_names THEN upper_names[n] ELSE n

Range(seq) == {seq[i] : i \in 1..Len(seq)}

\* the two membership tests of populate
virtual_lower == {lower(a) : a \in Range(virtual_fields)}
known_lower == {"objectclass"} \cup {lower(a) : a \in Range(may_fields \o must_fields)}

\* dict[k] = v
put(d, k, v) == [x \in DOMAIN d \cup {k} |-> IF x = k THEN v ELSE d[x]]

\* a dict with no key
EmptyDict == [x \in {} |-> Sc(PyNone)]

\* ------------------------------------------------------- LDAPObj
\* the loop of LDAPObj.populate over attrs.items(), from its k-th entry on;
\* an entry is <<name, value>>.  A raise leaves what the earlier entries did.
RECURSIVE populate_loop(_, _, _)
populate_loop(attrs, items, k) ==
  IF k > Len(items) THEN [attrs |-> attrs, err |-> "ok"]
  ELSE
    LET i == items[k][1]
        j == items[k][2]
        low == lower(i)
    IN
    IF low \in virtual_lower THEN populate_loop(attrs, items, k + 1)
    ELSE IF low \notin known_lower
    THEN [attrs |-> attrs, err |-> "UnknownAttribute"]
    ELSE IF low \notin DOMAIN attrs /\ i \notin DOMAIN attr_types
    THEN [attrs |-> attrs, err |-> "KeyError"]
    ELSE
      LET cur == IF low \in DOMAIN attrs THEN attrs[low]
                 ELSE LDAPAttribute(attr_types[i], Sc(PyNone)).a
          r == LDAPAttribute_add(cur, j)
      IN
      IF r.err # "ok" THEN [attrs |-> put(attrs, low, r.a), err |-> r.err]
      ELSE populate_loop(put(attrs, low, set_clean(r.a)), items, k + 1)

\* a populate that takes no snapshot
populate_unsnapshotted(r, dn, items) ==
  LET res == populate_loop(r.attrs, items, 1) IN
  [rec |-> [r EXCEPT !.dn = dn, !.already_exists = TRUE, !.attrs = res.attrs],
   err |-> res.err]

\* LDAPObj.populate: the record after the call and how the call ended.  The
\* snapshot is deepcopy(self._attrs): it shares no object with _attrs.
populate(r, dn, items) ==
  LET res == populate_loop(r.attrs, items, 1)
      r1 == [r EXCEPT !.dn = dn, !.already_exists = TRUE, !.attrs = res.attrs]
  IN
  IF res.err = "ok"
  THEN [rec |-> [r1 EXCEPT !.base = [none |-> FALSE, attrs |-> res.attrs]],
        err |-> "ok"]
  ELSE [rec |-> r1, err |-> res.err]

\* LDAPObj.__init__() followed by LDAPHelper.__init__: a bare record
NewRecord ==
  [dn |-> "None", already_exists |-> FALSE, deleted |-> FALSE,
   mode |-> "normal", attrs |-> EmptyDict,
   base |-> [none |-> TRUE, attrs |-> EmptyDict]]

\* build_properties._set with a plain value, for the property named name
property_set(r, name, value) ==
  LET low == lower(name) IN
  IF low \notin DOMAIN r.attrs THEN [rec |-> r, err |-> "KeyError"]
  ELSE
    LET res == IF r.mode = "self_update" THEN set_value(r.attrs[low], value)
               ELSE LDAPAttribute_add(r.attrs[low], value)
    IN [rec |-> [r EXCEPT !.attrs[low] = res.a], err |-> res.err]

\* build_properties._set with an LDAPAttribute instance obj in normal mode
property_set_attribute(r, name, obj) ==
  [rec |-> [r EXCEPT !.attrs = put(r.attrs, lower(name), obj)], err |-> "ok"]

\* a mark_clean that does nothing
mark_clean_skipped(r) == r

\* a mark_clean that brings the record back to its state before deletion
mark_clean_undeletes(r) ==
  [r EXCEPT !.deleted = FALSE,
            !.attrs = [k \in DOMAIN r.attrs |-> set_clean(r.attrs[k])]]

\* LDAPObj.mark_clean
mark_clean(r) ==
  [r EXCEPT !.attrs = [k \in DOMAIN r.attrs |-> set_clean(r.attrs[k])]]

\* LDAPObj.mark_deleted
mark_deleted(r) == [r EXCEPT !.deleted = TRUE]

\* the truth value of _base_state: None and the empty dict are false
base_truthy(r) == ~r.base.none /\ DOMAIN r.base.attrs # {}

\* LDAPObj.get_old_and_current_state: old and new map each name of _attrs to
\* a list; reading the snapshot for a name it lacks raises KeyError
old_of(r, k) ==
  LET o == IF base_truthy(r) THEN r.base.attrs[k].value
           ELSE get_base_state(r.attrs[k])
  IN IF is_scalar(o) THEN <<bytify1(o.items[1])>> ELSE o.items

new_of(r, k) ==
  LET v == r.attrs[k].value IN
  IF is_scalar(v) THEN <<bytify1(v.items[1])>>
  ELSE [n \in 1..Len(v.items) |-> bytify1(v.items[n])]

get_old_and_current_state(r) ==
  IF base_truthy(r) /\ ~(DOMAIN r.attrs \subseteq DOMAIN r.base.attrs)
  THEN [err |-> "KeyError", old |-> EmptyDict, new |-> EmptyDict]
  ELSE [err |-> "ok",
        old |-> [k \in DOMAIN r.attrs |-> old_of(r, k)],
        new |-> [k \in DOMAIN r.attrs |-> new_of(r, k)]]

\* the calls of ldap.modlist in save_ldap: the list each returns stands
\* here as the arguments it is made from
addModlist(new) == [op |-> "add", args |-> <<new>>]
modifyModlist(old, new) == [op |-> "modify", args |-> <<old, new>>]

\* a save_ldap that takes every record for one the store holds
save_ldap_always_modify(r) ==
  LET s == get_old_and_current_state(r) IN
  [err |-> s.err, kind |-> "modify", old |-> s.old, new |-> s.new,
   ldif |-> modifyModlist(s.old, s.new)]

\* LDAPObj.save_ldap up to the callable it returns: the kind of change-set,
\* the two states, and the list the callable will hand to the connection
save_ldap(r) ==
  LET s == get_old_and_current_state(r) IN
  [err |-> s.err,
   kind |-> IF r.already_exists THEN "modify" ELSE "create",
   old |-> s.old, new |-> s.new,
   ldif |-> IF r.already_exists THEN modifyModlist(s.old, s.new)
            ELSE addModlist(s.new)]

\* The connection's add_s, modify_s and delete_s either return the result
\* tuple of the operation, which is true, or raise LDAPError.
Outcomes == {"ack", "fail"}

\* the callable save_ldap returned, called with a connection:
\* `ldapconn.add_s(self.dn, ldif) and self.mark_clean()`, or the same with
\* modify_s
apply_save(r, outcome) ==
  IF outcome = "ack" THEN [rec |-> mark_clean(r), err |-> "ok"]
  ELSE [rec |-> r, err |-> "LDAPError"]

\* the callable delete_ldap returned, called with a connection:
\* `ldapconn.delete_s(self.dn) and self.mark_deleted()`
apply_delete(r, outcome) ==
  IF outcome = "ack" THEN [rec |-> mark_deleted(r), err |-> "ok"]
  ELSE [rec |-> r, err |-> "LDAPError"]

\* the loop of LDAPHelper.self_update over updict.items(), from its k-th
\* entry on.  setattr raises no AttributeError here (every name is a
\* property with a setter), and any other error leaves the loop.
RECURSIVE self_update_loop(_, _, _)
self_update_loop(r, updict, k) ==
  IF k > Len(updict) THEN [rec |-> r, err |-> "ok"]
  ELSE LET res == property_set(r, updict[k][1], updict[k][2]) IN
       IF res.err # "ok" THEN res
       ELSE self_update_loop(res.rec, updict, k + 1)

\* LDAPHelper.self_update: _mode is set back to 'normal' after the loop only
self_update(r, updict) ==
  LET res == self_update_loop([r EXCEPT !.mode = "self_update"], updict, 1) IN
  IF res.err = "ok" THEN [rec |-> [res.rec EXCEPT !.mode = "normal"], err |-> "ok"]
  ELSE res

\* ------------------------------------------------------------ inputs
TextA == PyStr(<<97>>)
TextB == PyStr(<<98>>)
TextAB == PyStr(<<97, 98>>)
BytesA == PyBytes(<<97>>)

\* the names of the raw attributes given to populate
RawNames == {"cn", "CN", "description", "displayName", "Bogus", "entryDN"}

\* their values: a list of bytes (what a search returns), a list of text,
\* an empty list, a bare text
RawValues == {Li(<<BytesA>>), Li(<<TextA>>), Li(<<>>), Sc(TextAB)}

\* raw attribute mappings: their entries in insertion order, names distinct
RawEntries == RawNames \X RawValues

RawAttrs ==
  {<<e>> : e \in RawEntries} \cup
  {p \in RawEntries \X RawEntries : p[1][1] # p[2][1]}

\* the mappings given to a populate of a record that is no longer bare
RePopulateAttrs ==
  {<<e>> : e \in {"cn", "Bogus"} \X {Li(<<BytesA>>), Li(<<TextB>>)}}

\* the mappings a record is hydrated from when it is constructed from a
\* search result: attribute names as the schema declares them, each with
\* the list of byte strings the search returned
HydrateAttrs ==
  {items \in RawAttrs :
     \A n \in 1..Len(items) :
       /\ items[n][1] \in {"cn", "description", "displayName"}
       /\ items[n][2] = Li(<<BytesA>>)}

\* the names of the properties build_properties adds to the class
PropertyNames == Range(may_fields \o must_fields)

\* the values assigned to a property
SetValues ==
  {Sc(TextA), Sc(TextAB), Sc(BytesA), Li(<<TextA>>), Li(<<TextB>>), Li(<<>>),
   Li(<<PyList1(<<97>>)>>)}

\* the values taken off a multi-valued attribute's list
RemoveItems == {TextA, TextB, BytesA}

\* the updict mappings given to self_update
Updicts ==
  {<<e>> : e \in {"cn", "description", "displayName"} \X SetValues} \cup
  {<<<<"description", v>>, <<"cn", v>>>> : v \in {Sc(TextA), Li(<<TextB>>)}}

\* ------------------------------------------------- the object classes
\* The schema the registry is loaded from: a chain of superiors
\* (organizationalPerson, person, top), two classes under the same superior
\* (person and account), a class with no superior (mailDomain), and classes
\* with an empty must or may list.
ClassNames == {"top", "person", "organizationalPerson", "account", "mailDomain"}

object_classes ==
  [c \in ClassNames |->
     CASE c = "top" ->
            [must |-> <<"objectClass">>, may |-> <<>>, sup |-> <<>>]
       [] c = "person" ->
            [must |-> <<"cn", "sn">>, may |-> <<"description">>, sup |-> <<"top">>]
       [] c = "organizationalPerson" ->
            [must |-> <<>>, may |-> <<"title">>, sup |-> <<"person">>]
       [] c = "account" ->
            [must |-> <<"uid">>, may |-> <<"description">>, sup |-> <<"top">>]
       [] c = "mailDomain" ->
            [must |-> <<"dc">>, may |-> <<"description">>, sup |-> <<>>]]

\* an order of the names, for the order in which a Python set yields them
NameRank ==
  [n \in ClassNames \cup {"objectClass", "cn", "sn", "description", "title",
                          "uid", "dc"} |->
     CASE n = "top" -> 1 [] n = "person" -> 2 [] n = "organizationalPerson" -> 3
       [] n = "account" -> 4 [] n = "mailDomain" -> 5 [] n = "objectClass" -> 6
       [] n = "cn" -> 7 [] n = "sn" -> 8 [] n = "description" -> 9
       [] n = "title" -> 10 [] n = "uid" -> 11 [] n = "dc" -> 12]

\* the identity of the class object the registry holds for a class name
ClassId == [c \in ClassNames |-> NameRank[c]]

\* ------------------------------------------------------------- state
VARIABLES
  rec,      \* the record
  err,      \* how the last operation on the record ended: "ok" or the error
  last,     \* the last operation on the record: its name, inputs and mode
  nops,     \* operations done on the record
  pending,  \* the callable the last save_ldap returned: its kind and list
  hashseed, \* the process's string hash seed: it orders every set of names
  cache,    \* _cache_answers: key -> stored result
  nextId,   \* the identity the next class object created gets
  calls,    \* the calls of build_composedtype that returned, with results
  pc,       \* per thread: where it stands in the decorator's wrapper
  tcall,    \* per thread: the arguments of its call
  tres      \* per thread: the value f returned to it, then what it returned

rvars == <<rec, err, last, nops, pending>>
cvars == <<hashseed, cache, nextId, calls>>
tvars == <<pc, tcall, tres>>
vars == <<rec, err, last, nops, pending, hashseed, cache, nextId, calls, pc, tcall, tres>>

NoOp == [op |-> "new", items |-> <<>>, mode |-> "normal"]

\* no callable held
NoPending == [kind |-> "none", ldif |-> <<>>]

\* the threads that call the memoized function
Threads == {"t1", "t2"}

\* the state of the parts a specification leaves alone
RecordIdle ==
  rec = NewRecord /\ err = "ok" /\ last = NoOp /\ nops = 0 /\ pending = NoPending
ComposeIdle ==
  /\ cache = EmptyDict
  /\ nextId = Cardinality(ClassNames) + 1
  /\ calls = <<>>
ThreadsIdle ==
  /\ pc = [t \in Threads |-> "idle"]
  /\ tcall = [t \in Threads |-> <<>>]
  /\ tres = [t \in Threads |-> <<>>]

InitRecord ==
  /\ RecordIdle
  /\ hashseed = 0
  /\ ComposeIdle
  /\ ThreadsIdle

\* rec.populate(dn, attrs)
Populate(items) ==
  /\ nops < MaxOps
  /\ LET res == populate(rec, "cn=Jane,dc=example", items) IN
     /\ rec' = res.rec
     /\ err' = res.err
  /\ last' = [op |-> "populate", items |-> items, mode |-> rec.mode]
  /\ nops' = nops + 1
  /\ UNCHANGED <<pending, cvars, tvars>>

\* rec.<name> = value, value not an LDAPAttribute
Set(name, value) ==
  /\ nops < MaxOps
  /\ LET res == property_set(rec, name, value) IN
     /\ rec' = res.rec
     /\ err' = res.err
  /\ last' = [op |-> "set", items |-> <<<<name, value>>>>, mode |-> rec.mode]
  /\ nops' = nops + 1
  /\ UNCHANGED <<pending, cvars, tvars>>

\* rec.<name> = attr_types[name](initial), in normal mode
SetAttribute(name, initial) ==
  /\ nops < MaxOps
  /\ rec.mode = "normal"
  /\ LDAPAttribute(attr_types[name], initial).err = "ok"
  /\ LET res == property_set_attribute(rec, name,
                   LDAPAttribute(attr_types[name], initial).a) IN
     /\ rec' = res.rec
     /\ err' = res.err
  /\ last' = [op |-> "set_attribute", items |-> <<<<name, initial>>>>,
              mode |-> rec.mode]
  /\ nops' = nops + 1
  /\ UNCHANGED <<pending, cvars, tvars>>

\* rec.self_update(updict)
SelfUpdate(updict) ==
  /\ nops < MaxOps
  /\ LET res == self_update(rec, updict) IN
     /\ rec' = res.rec
     /\ err' = res.err
  /\ last' = [op |-> "self_update", items |-> updict, mode |-> "self_update"]
  /\ nops' = nops + 1
  /\ UNCHANGED <<pending, cvars, tvars>>

\* rec.<name>.value - item, for a multi-valued attribute the record holds
Remove(name, item) ==
  /\ nops < MaxOps
  /\ lower(name) \in DOMAIN rec.attrs
  /\ ~rec.attrs[lower(name)].single_value
  /\ rec.attrs[lower(name)].value.isList
  /\ LET res == value_sub(rec.attrs[lower(name)], item) IN
     /\ rec' = [rec EXCEPT !.attrs[lower(name)] = res.a]
     /\ err' = res.err
  /\ last' = [op |-> "remove", items |-> <<<<name, Sc(item)>>>>,
              mode |-> rec.mode]
  /\ nops' = nops + 1
  /\ UNCHANGED <<pending, cvars, tvars>>

\* rec.mark_clean()
MarkClean ==
  /\ nops < MaxOps
  /\ rec' = mark_clean(rec)
  /\ err' = "ok"
  /\ last' = [op |-> "mark_clean", items |-> <<>>, mode |-> rec.mode]
  /\ nops' = nops + 1
  /\ UNCHANGED <<pending, cvars, tvars>>

\* rec.mark_deleted()
MarkDeleted ==
  /\ nops < MaxOps
  /\ rec' = mark_deleted(rec)
  /\ err' = "ok"
  /\ last' = [op |-> "mark_deleted", items |-> <<>>, mode |-> rec.mode]
  /\ nops' = nops + 1
  /\ UNCHANGED <<pending, cvars, tvars>>

\* rec.save_ldap(): the callable is kept
SaveLdap ==
  /\ nops < MaxOps
  /\ LET cs == save_ldap(rec) IN
     /\ err' = cs.err
     /\ pending' = IF cs.err = "ok" THEN [kind |-> cs.kind, ldif |-> cs.ldif]
                   ELSE pending
  /\ last' = [op |-> "save_ldap", items |-> <<>>, mode |-> rec.mode]
  /\ nops' = nops + 1
  /\ UNCHANGED <<rec, cvars, tvars>>

\* the callable kept from save_ldap is called with a connection
Apply(outcome) ==
  /\ nops < MaxOps
  /\ pending.kind # "none"
  /\ LET res == apply_save(rec, outcome) IN
     /\ rec' = res.rec
     /\ err' = res.err
  /\ last' = [op |-> "apply", items |-> <<>>, mode |-> rec.mode]
  /\ nops' = nops + 1
  /\ UNCHANGED <<pending, cvars, tvars>>

\* rec.delete_ldap()(ldapconn)
DeleteLdap(outcome) ==
  /\ nops < MaxOps
  /\ LET res == apply_delete(rec, outcome) IN
     /\ rec' = res.rec
     /\ err' = res.err
  /\ last' = [op |-> "delete_ldap", items |-> <<>>, mode |-> rec.mode]
  /\ nops' = nops + 1
  /\ UNCHANGED <<pending, cvars, tvars>>

NextRecord ==
  \/ \E items \in (IF nops = 0 THEN RawAttrs ELSE RePopulateAttrs) :
       Populate(items)
  \/ \E name \in PropertyNames, value \in SetValues : Set(name, value)
  \/ \E name \in PropertyNames, initial \in {Sc(PyNone), Sc(TextA)} :
       SetAttribute(name, initial)
  \/ \E updict \in Updicts : SelfUpdate(updict)
  \/ \E name \in PropertyNames, item \in RemoveItems : Remove(name, item)
  \/ MarkClean
  \/ MarkDeleted
  \/ SaveLdap
  \/ \E outcome \in Outcomes : Apply(outcome)
  \/ \E outcome \in Outcomes : DeleteLdap(outcome)

SpecRecord == InitRecord /\ [][NextRecord]_vars

\* A record constructed with a dn and the attributes of a search result,
\* LDAPObj(dn, initial_attrs): __init__ hydrates it with populate.  It is
\* then edited, saved and applied.
InitPersist ==
  /\ rec \in {populate(NewRecord, "cn=Jane,dc=example", items).rec :
               items \in HydrateAttrs}
  /\ err = "ok"
  /\ last = NoOp
  /\ nops = 0
  /\ pending = NoPending
  /\ hashseed = 0
  /\ ComposeIdle
  /\ ThreadsIdle

NextPersist ==
  \/ \E name \in PropertyNames, value \in SetValues : Set(name, value)
  \/ \E updict \in Updicts : SelfUpdate(updict)
  \/ \E name \in PropertyNames, item \in RemoveItems : Remove(name, item)
  \/ MarkClean
  \/ SaveLdap
  \/ \E outcome \in Outcomes : Apply(outcome)

SpecPersist == InitPersist /\ [][NextPersist]_vars

\* ----------------------------------------- ArithmeticList, class lists
\* A list attribute of a class object: its items, and whether the object is
\* an ArithmeticList (al) or a plain list.
HashKey(n) == IF hashseed = 0 THEN NameRank[n] ELSE 0 - NameRank[n]

\* list(set(S)): the names of S in the order the hash seed gives
RECURSIVE ListOfSet(_)
ListOfSet(S) ==
  IF S = {} THEN <<>>
  ELSE LET x == CHOOSE x \in S : \A y \in S : HashKey(x) <= HashKey(y) IN
       <<x>> \o ListOfSet(S \ {x})

\* ArithmeticList.__init__(iterable) for a list of names: the in-place adds
\* of its loop are overwritten by list.__init__(set(iterable))
ArithmeticList(items) == [al |-> TRUE, items |-> ListOfSet(Range(items))]

PlainList(items) == [al |-> FALSE, items |-> items]

keep_new(held, items) == SelectSeq(items, LAMBDA x : x \notin Range(held))

\* ArithmeticList.__add__(self, other) for a list other: a copy of self made
\* by the constructor, then every item of other that self lacks.  The names
\* are text, which debyte returns as it is.
ArithmeticList_add(self, other) ==
  [al |-> TRUE,
   items |-> ArithmeticList(self.items).items \o keep_new(self.items, other.items)]

\* `val + otherval` in ComposableType.__add__, where each operand has gone
\* through `or []`: an empty list of either kind has become a plain [], and
\* a plain list on the left concatenates, keeping repeated items
plus_lists(val, otherval) ==
  IF val.al /\ Len(val.items) > 0
  THEN ArithmeticList_add(val, otherval)
  ELSE PlainList(val.items \o otherval.items)

\* build_ldapclass: the class object of one object class of the schema
build_ldapclass(c) ==
  [id |-> ClassId[c],
   names |-> ArithmeticList(<<c>>),
   must_fields |-> ArithmeticList(object_classes[c].must),
   may_fields |-> ArithmeticList(object_classes[c].may),
   sup_classes |-> ArithmeticList(object_classes[c].sup)]

\* load_schemas: datadict, the registry of class objects by name
all_types == [c \in ClassNames |-> build_ldapclass(c)]

\* the value None where a class object is expected
NoneType ==
  [id |-> 0, names |-> PlainList(<<>>), must_fields |-> PlainList(<<>>),
   may_fields |-> PlainList(<<>>), sup_classes |-> PlainList(<<>>)]

\* ComposableType.__add__: a new class object, the list attributes of self
\* each joined with other's
ComposableType_add(self, other, newid) ==
  [id |-> newid,
   names |-> plus_lists(self.names, other.names),
   must_fields |-> plus_lists(self.must_fields, other.must_fields),
   may_fields |-> plus_lists(self.may_fields, other.may_fields),
   sup_classes |-> plus_lists(self.sup_classes, other.sup_classes)]

\* build_composedtype's inner loop, `for j in typ.sup_classes`, from the k-th
\* item on: it runs over the list typ held when the loop began, while typ is
\* rebound to each new class
RECURSIVE sup_loop(_, _, _)
sup_loop(st, sups, k) ==
  IF k > Len(sups) THEN st
  ELSE IF sups[k] \notin Range(st.met)
  THEN sup_loop([typ |-> ComposableType_add(st.typ, all_types[sups[k]], st.nid),
                 met |-> Append(st.met, sups[k]),
                 nid |-> st.nid + 1], sups, k + 1)
  ELSE sup_loop(st, sups, k + 1)

\* build_composedtype's outer loop, `for i in ocs`, from the k-th name on
RECURSIVE ocs_loop(_, _, _)
ocs_loop(st, ocs, k) ==
  IF k > Len(ocs) THEN st
  ELSE
    LET st1 == IF st.typ.id = NoneType.id
               THEN [st EXCEPT !.typ = all_types[ocs[k]]]
               ELSE [st EXCEPT !.typ = ComposableType_add(st.typ, all_types[ocs[k]], st.nid),
                               !.nid = st.nid + 1]
        st2 == sup_loop(st1, st1.typ.sup_classes.items, 1)
    IN ocs_loop([st2 EXCEPT !.met = Append(st2.met, ocs[k])], ocs, k + 1)

\* build_composedtype(ocs, all_types), the undecorated function: the class
\* it returns and the next free identity.  It has no raise of its own, and
\* every name it is given here is a key of all_types: it always returns,
\* the None it began with when ocs is empty.
build_composedtype(ocs, nid) ==
  LET st == ocs_loop([typ |-> NoneType, met |-> <<>>, nid |-> nid], ocs, 1)
  IN [typ |-> st.typ, nid |-> st.nid, err |-> "ok"]

\* ----------------------------------------- slacker_cacher_decorator
\* repr([f, a, k]): the function, the positional arguments as written (the
\* class names in the order given; the registry is the same in every call)
\* and the keyword arguments left after uncache is popped (none)
cache_key(ocs) == <<"build_composedtype", ocs>>

\* a wrapper that calls f every time
always_compute(c, call) == TRUE

\* the test of the wrapper: whether f is to be called.  call.uncache says
\* that an uncache keyword was given, with any value but None.
must_compute(c, call) == call.uncache \/ cache_key(call.ocs) \notin DOMAIN c

\* the whole wrapper, run with no other thread in between
cached_call(c, nid, call) ==
  LET key == cache_key(call.ocs)
      r == build_composedtype(call.ocs, nid)
  IN IF must_compute(c, call)
     THEN [cache |-> put(c, key, r.typ), nid |-> r.nid, res |-> r.typ,
           computed |-> TRUE, err |-> r.err]
     ELSE [cache |-> c, nid |-> nid, res |-> c[key], computed |-> FALSE,
           err |-> "ok"]

\* the class-name sequences composed: every one of up to two names
OcsInputs ==
  {<<>>} \cup {<<a>> : a \in ClassNames} \cup (ClassNames \X ClassNames)

\* the hash seeds tried
HashSeeds == {0, 1}

\* --------------------------------------- sequential calls of compose
InitCompose ==
  /\ RecordIdle
  /\ hashseed \in HashSeeds
  /\ ComposeIdle
  /\ ThreadsIdle

\* get_proper_type / build_composedtype(ocs, all_types[, uncache=True])
Compose(ocs, uncache) ==
  /\ Len(calls) < MaxCalls
  /\ \E r \in {cached_call(cache, nextId, [ocs |-> ocs, uncache |-> uncache])} :
        /\ cache' = r.cache
        /\ nextId' = r.nid
        /\ calls' = Append(calls, [ocs |-> ocs, uncache |-> uncache,
                                   res |-> r.res, computed |-> r.computed,
                                   err |-> r.err])
  /\ UNCHANGED <<rvars, hashseed, tvars>>

NextCompose == \E ocs \in OcsInputs, uncache \in BOOLEAN : Compose(ocs, uncache)

SpecCompose == InitCompose /\ [][NextCompose]_vars

\* ------------------------------------- concurrent calls of compose
\* the class-name sequences the threads compose
ThreadOcs == {<<"person">>, <<"person", "account">>, <<"account", "person">>}

InitThreads ==
  /\ RecordIdle
  /\ hashseed \in HashSeeds
  /\ ComposeIdle
  /\ pc = [t \in Threads |-> "idle"]
  /\ tcall = [t \in Threads |-> [ocs |-> <<>>, uncache |-> FALSE]]
  /\ tres = [t \in Threads |-> NoneType]

\* thread t enters the wrapper
Call(t, ocs, uncache) ==
  /\ pc[t] = "idle"
  /\ pc' = [pc EXCEPT ![t] = "check"]
  /\ tcall' = [tcall EXCEPT ![t] = [ocs |-> ocs, uncache |-> uncache]]
  /\ UNCHANGED <<rvars, cvars, tres>>

\* the wrapper's test
Check(t) ==
  /\ pc[t] = "check"
  /\ pc' = [pc EXCEPT ![t] = IF must_compute(cache, tcall[t]) THEN "compute" ELSE "return"]
  /\ UNCHANGED <<rvars, cvars, tcall, tres>>

\* f(*a, **k)
Compute(t) ==
  /\ pc[t] = "compute"
  /\ LET r == build_composedtype(tcall[t].ocs, nextId) IN
     /\ tres' = [tres EXCEPT ![t] = r.typ]
     /\ nextId' = r.nid
  /\ pc' = [pc EXCEPT ![t] = "store"]
  /\ UNCHANGED <<rvars, hashseed, cache, calls, tcall>>

\* _cache_answers[key] = the value f returned
Store(t) ==
  /\ pc[t] = "store"
  /\ cache' = put(cache, cache_key(tcall[t].ocs), tres[t])
  /\ pc' = [pc EXCEPT ![t] = "return"]
  /\ UNCHANGED <<rvars, hashseed, nextId, calls, tcall, tres>>

\* return _cache_answers[key]
Return(t) ==
  /\ pc[t] = "return"
  /\ tres' = [tres EXCEPT ![t] = cache[cache_key(tcall[t].ocs)]]
  /\ pc' = [pc EXCEPT ![t] = "done"]
  /\ UNCHANGED <<rvars, cvars, tcall>>

NextThreads ==
  \E t \in Threads :
    \/ \E ocs \in ThreadOcs, uncache \in BOOLEAN : Call(t, ocs, uncache)
    \/ Check(t)
    \/ Compute(t)
    \/ Store(t)
    \/ Return(t)

SpecThreads == InitThreads /\ [][NextThreads]_vars

\* ------------------------------------------------------------ claims
\* the step is an operation on the record
RecordStep == nops' = nops + 1

\* the values a value stands for: a list's elements, or the scalar itself
Vals(v) == Range(v.items)

\* how many elements of the sequence s equal x
Count(s, x) == Cardinality({n \in 1..Len(s) : s[n] = x})

\* C1: on a record hydrated by populate, a normal-mode set of a may-attribute
\* that the hydrated attributes lack succeeds with a scalar text value; the
\* change-set built next is a modify whose new_state maps the name to the
\* one-element array of the value, and whose old_state lacks the name.
C1_SetOfAbsentMayAttribute ==
  [][(/\ RecordStep
      /\ rec.already_exists /\ ~rec.base.none
      /\ last'.op = "set" /\ last'.mode = "normal"
      /\ last'.items[1][1] \in Range(may_fields)
      /\ lower(last'.items[1][1]) \notin DOMAIN rec.attrs
      /\ is_scalar(last'.items[1][2]))
     => LET low == lower(last'.items[1][1])
            cs == save_ldap(rec')
        IN /\ err' = "ok"
           /\ cs.err = "ok"
           /\ cs.kind = "modify"
           /\ low \in DOMAIN cs.new
           /\ cs.new[low] = <<bytify1(last'.items[1][2].items[1])>>
           /\ low \notin DOMAIN cs.old]_vars

\* C2: two normal-mode sets in a row on a multi-valued attribute, of v1 then
\* v2, leave each value of v1 and v2 in the attribute exactly once.
C2_NormalSetsAreAdditive ==
  [][(/\ RecordStep
      /\ last.op = "set" /\ last.mode = "normal" /\ err = "ok"
      /\ last'.op = "set" /\ last'.mode = "normal" /\ err' = "ok"
      /\ last'.items[1][1] = last.items[1][1]
      /\ ~rec'.attrs[lower(last.items[1][1])].single_value)
     => \A x \in Vals(last.items[1][2]) \cup Vals(last'.items[1][2]) :
          Count(rec'.attrs[lower(last.items[1][1])].value.items,
                debyte1(x)) = 1]_vars

\* a set made in self_update mode: self_update with one entry, or an
\* assignment while _mode is 'self_update'
OverwriteSet(l) ==
  /\ l.mode = "self_update"
  /\ l.op \in {"set", "self_update"}
  /\ Len(l.items) = 1

\* C3: two self_update-mode sets in a row on a multi-valued attribute, of v1
\* then v2, leave the attribute holding v2 alone, as given.
C3_SelfUpdateOverwrites ==
  [][(/\ RecordStep
      /\ OverwriteSet(last) /\ err = "ok"
      /\ OverwriteSet(last') /\ err' = "ok"
      /\ last'.items[1][1] = last.items[1][1]
      /\ ~rec'.attrs[lower(last.items[1][1])].single_value)
     => rec'.attrs[lower(last.items[1][1])].value.items
          = last'.items[1][2].items]_vars

\* C4: right after a populate that succeeded on a bare record, old_state
\* equals new_state, so the modify change-set holds nothing.
C4_FreshRecordHasEmptyDiff ==
  (last.op = "populate" /\ nops = 1 /\ err = "ok")
    => LET cs == save_ldap(rec) IN
       cs.err = "ok" /\ cs.kind = "modify" /\ cs.old = cs.new

\* the name is outside must/may and outside the virtual fields
UnknownName(n) == lower(n) \notin known_lower \cup virtual_lower

\* C5: a populate whose input holds an unknown name, at any place and beside
\* any other entries, fails with the unknown-attribute error.
C5_UnknownAttributeAlwaysReported ==
  (last.op = "populate" /\ \E k \in 1..Len(last.items) : UnknownName(last.items[k][1]))
    => err = "UnknownAttribute"

\* the classes reachable from a set of classes through superior links
RECURSIVE Reachable(_)
Reachable(S) ==
  LET T == S \cup UNION {Range(object_classes[c].sup) : c \in S} IN
  IF T = S THEN S ELSE Reachable(T)

NoRepeat(s) == \A i, j \in DOMAIN s : s[i] = s[j] => i = j

SameNames(o1, o2) == \A c \in ClassNames : Count(o1, c) = Count(o2, c)

\* C6: for any two class names a and b, compose([a, b]) and compose([b, a])
\* give descriptors whose must, may and name lists are equal as sets.
C6_ComposeIsOrderIndependent ==
  \A i, j \in DOMAIN calls :
    (/\ Len(calls[i].ocs) = 2
     /\ calls[j].ocs = <<calls[i].ocs[2], calls[i].ocs[1]>>)
    => /\ Range(calls[i].res.must_fields.items) = Range(calls[j].res.must_fields.items)
       /\ Range(calls[i].res.may_fields.items) = Range(calls[j].res.may_fields.items)
       /\ Range(calls[i].res.names.items) = Range(calls[j].res.names.items)

\* C7: the descriptor composed from a class-name sequence has must and may
\* equal to the union of must and may over every class reachable from the
\* named classes through superior links.
C7_ComposeCoversSuperiorClosure ==
  \A i \in DOMAIN calls :
    Len(calls[i].ocs) > 0 =>
      LET R == Reachable(Range(calls[i].ocs)) IN
      /\ Range(calls[i].res.must_fields.items)
           = UNION {Range(object_classes[c].must) : c \in R}
      /\ Range(calls[i].res.may_fields.items)
           = UNION {Range(object_classes[c].may) : c \in R}

\* C8: the must, may and names lists of a composed descriptor hold no
\* element twice, whatever the class-name sequence.
C8_ComposeHasNoDuplicates ==
  \A i \in DOMAIN calls :
    /\ NoRepeat(calls[i].res.must_fields.items)
    /\ NoRepeat(calls[i].res.may_fields.items)
    /\ NoRepeat(calls[i].res.names.items)

\* C9: two compose requests for the same class names, in the same order or
\* in a different one, return the same descriptor object.
C9_SameSetSameObject ==
  \A i, j \in DOMAIN calls :
    (/\ ~calls[i].uncache
     /\ ~calls[j].uncache
     /\ SameNames(calls[i].ocs, calls[j].ocs))
    => calls[i].res.id = calls[j].res.id

\* C10: two threads that call compose concurrently for the same class-name
\* key are returned the identical descriptor object, under every
\* interleaving.
C10_ConcurrentCallsSameObject ==
  \A t, u \in Threads :
    (/\ pc[t] = "done"
     /\ pc[u] = "done"
     /\ ~tcall[t].uncache
     /\ ~tcall[u].uncache
     /\ tcall[t].ocs = tcall[u].ocs)
    => tres[t].id = tres[u].id

\* the calls before the j-th that had the key of the j-th
EarlierSameKey(j) ==
  {i \in 1..(j - 1) : cache_key(calls[i].ocs) = cache_key(calls[j].ocs)}

\* C11: in a sequence of calls of the memoized function without the bypass
\* flag, the function is evaluated on the first call for a key only and every
\* later call for the key returns the result the first one stored; a call
\* that carries the bypass flag evaluates the function again.
C11_MemoizedOncePerKey ==
  \A j \in DOMAIN calls :
    LET earlier == EarlierSameKey(j) IN
    /\ calls[j].uncache => calls[j].computed
    /\ (~calls[j].uncache /\ earlier = {}) => calls[j].computed
    /\ (/\ ~calls[j].uncache
        /\ earlier # {}
        /\ \A i \in earlier : ~calls[i].uncache)
       => /\ ~calls[j].computed
          /\ \A i \in earlier : calls[j].res = calls[i].res

\* a later call for a key returned, without the flag, the composed class the
\* first call stored; and a call with the flag was made for a key held
C11_Witness ==
  /\ Len(calls) = 2
  /\ calls[1].ocs = calls[2].ocs
  /\ ~calls[1].uncache /\ ~calls[2].uncache
  /\ ~calls[2].computed
  /\ calls[2].res.id > Cardinality(ClassNames)

\* C12: compose of an empty class-name sequence fails with the InvalidSchema
\* error.
C12_EmptyComposeIsInvalidSchema ==
  \A i \in DOMAIN calls :
    calls[i].ocs = <<>> => calls[i].err = "InvalidSchema"

\* no attribute of the record is dirty
AllClean(r) == \A k \in DOMAIN r.attrs : ~r.attrs[k].dirty

\* C13: the callable save_ldap returned calls mark_clean, which clears every
\* dirty flag, when the connection acknowledges the create or modify; when
\* the connection's call fails, every attribute's dirty flag and value are
\* as before and building the change-set again gives the same change-set.
C13_ApplyCleansOnlyOnAck ==
  [][(RecordStep /\ last'.op = "apply")
     => /\ err' = "ok" =>
             /\ AllClean(rec')
             /\ DOMAIN rec'.attrs = DOMAIN rec.attrs
             /\ \A k \in DOMAIN rec.attrs : rec'.attrs[k].value = rec.attrs[k].value
        /\ err' # "ok" =>
             /\ err' = "LDAPError"
             /\ rec'.attrs = rec.attrs
             /\ save_ldap(rec') = save_ldap(rec)
             /\ pending' = pending]_vars

\* a call of the callable failed on a record with a dirty attribute, which
\* is dirty still
C13_Witness ==
  /\ last.op = "apply"
  /\ err = "LDAPError"
  /\ \E k \in DOMAIN rec.attrs : rec.attrs[k].dirty
  /\ save_ldap(rec).err = "ok"

\* C14: once mark_deleted has been called on a record, its deleted flag is
\* true after every later operation on it.
C14_DeletedIsPermanent ==
  [][rec.deleted => rec'.deleted]_vars

\* a record deleted, then marked clean, is deleted still
C14_Witness ==
  /\ rec.deleted
  /\ nops >= 2
  /\ last.op = "mark_clean"

\* C15: after mark_deleted no operation mutates the record: a set in either
\* mode, or a populate, leaves the attribute map and every value as it was.
C15_NoMutationAfterDelete ==
  [][(/\ RecordStep
      /\ rec.deleted
      /\ last'.op \in {"set", "set_attribute", "self_update", "populate"})
     => /\ DOMAIN rec'.attrs = DOMAIN rec.attrs
        /\ \A k \in DOMAIN rec.attrs : rec'.attrs[k].value = rec.attrs[k].value]_vars

\* C16: building a change-set gives kind create, made from new_state alone,
\* exactly when the record's already_exists flag is false, and kind modify,
\* made from old_state and new_state, exactly when the flag is true.  A build
\* for a record the store does not hold always returns.
C16_KindFollowsAlreadyExists ==
  [][(RecordStep /\ last'.op = "save_ldap")
     => LET s == get_old_and_current_state(rec) IN
        /\ ~rec.already_exists => err' = "ok"
        /\ err' = "ok" =>
             /\ pending'.kind = "create" <=> ~rec.already_exists
             /\ pending'.kind = "modify" <=> rec.already_exists
             /\ pending'.kind = "create" => pending'.ldif = addModlist(s.new)
             /\ pending'.kind = "modify" => pending'.ldif = modifyModlist(s.old, s.new)]_vars

\* a create change-set was built for a bare record that holds an attribute
C16_Witness ==
  /\ last.op = "save_ldap"
  /\ err = "ok"
  /\ pending.kind = "create"
  /\ DOMAIN rec.attrs # {}
  /\ ~rec.already_exists

\* every array of the mapping holds byte strings only
AllBytes(st) ==
  \A k \in DOMAIN st : \A n \in 1..Len(st[k]) : st[k][n].t = "bytes"

\* C17: in the (old_state, new_state) pair get_old_and_current_state returns,
\* every attribute of both mappings maps to an array whose elements are all
\* byte strings, for single- and multi-valued attributes and for values that
\* were given as text.
C17_StatesAreByteArrays ==
  (last.op = "save_ldap" /\ err = "ok")
    => LET s == get_old_and_current_state(rec) IN
       AllBytes(s.old) /\ AllBytes(s.new)

\* a normal-mode set that reached LDAPAttribute.__add__ and returned
AddStep ==
  /\ RecordStep
  /\ last'.op = "set" /\ last'.mode = "normal"
  /\ err' = "ok"

\* C18: after add(other) on an attribute, base_state equals the value the
\* attribute held just before the add, single- or multi-valued; when the add
\* changed the value, base_state differs from the new value.
C18_BaseStateIsPreAddValue ==
  [][AddStep
     => LET low == lower(last'.items[1][1]) IN
        /\ get_base_state(rec'.attrs[low]) = rec.attrs[low].value
        /\ rec'.attrs[low].value # rec.attrs[low].value
             => get_base_state(rec'.attrs[low]) # rec'.attrs[low].value]_vars

\* every multi-valued attribute holds decoded text only, no element twice
CanonicalMulti(r) ==
  \A k \in DOMAIN r.attrs :
    (~r.attrs[k].single_value /\ r.attrs[k].value.isList)
    => /\ \A n \in DOMAIN r.attrs[k].value.items : r.attrs[k].value.items[n].t = "str"
       /\ NoRepeat(r.attrs[k].value.items)

\* an operation that constructs attributes or adds to them, and no more:
\* a populate, a normal-mode set, the assignment of a new attribute
ConstructOrAddStep ==
  /\ RecordStep
  /\ last'.op \in {"populate", "set", "set_attribute"}
  /\ last'.mode = "normal"

\* C19: construct and add operations on a multi-valued attribute, with scalar
\* or list arguments, bytes or text, leave its value without two elements
\* that are equal after decoding, every element being decoded text.
C19_MultiValueIsCanonical ==
  [][(ConstructOrAddStep /\ CanonicalMulti(rec)) => CanonicalMulti(rec')]_vars

\* C20: after any sequence of construct, set_value and add operations, with
\* scalar or collection arguments, a single-valued attribute's value is a
\* scalar and never a collection.
C20_SingleValueIsScalar ==
  \A k \in DOMAIN rec.attrs :
    rec.attrs[k].single_value => is_scalar(rec.attrs[k].value)

\* C21: add never raises on a type mismatch: a normal-mode set of an
\* attribute the record holds, single- or multi-valued, with a scalar, a
\* collection or an empty collection, returns.
C21_AddNeverRaises ==
  [][(/\ RecordStep
      /\ last'.op = "set" /\ last'.mode = "normal"
      /\ lower(last'.items[1][1]) \in DOMAIN rec.attrs)
     => err' = "ok"]_vars

\* the operations that edit or clean the record after its hydration
EditOps == {"set", "set_attribute", "self_update", "mark_clean", "apply"}

Held(r, l) ==
  LET v == r.attrs[lower(l.items[1][1])].value
  IN l.items[1][2].items[1] \in Range(v.items)

\* C23: removing from a multi-valued attribute's list, with the minus
\* operator, a value the list does not hold fails with ValueError (the
\* value-not-found error) and leaves the list, and the record, as they were.
C23_RemoveAbsentFails ==
  [][(RecordStep /\ last'.op = "remove" /\ ~Held(rec, last'))
     => (err' = "ValueError" /\ rec' = rec)]_vars

\* a removal of a value a non-empty list did not hold has failed
C23_Witness ==
  /\ last.op = "remove"
  /\ err = "ValueError"
  /\ ~Held(rec, last)
  /\ rec.attrs[lower(last.items[1][1])].value.items # <<>>

\* the two states hold, for every attribute, the same values
SameValues(old, new) ==
  \A k \in DOMAIN new :
    Range(old[k]) \ {PyNone} = Range(new[k]) \ {PyNone}

\* C24: after a modify was applied with success (the callable ran and
\* mark_clean was called) for the change-set of the record as it stands,
\* the change-set built next is empty: old_state holds for every attribute
\* the values new_state holds.
C24_NoChangeAfterAppliedModify ==
  [][(/\ RecordStep
      /\ last'.op = "apply" /\ err' = "ok"
      /\ pending.kind = "modify"
      /\ save_ldap(rec).err = "ok"
      /\ pending.ldif = save_ldap(rec).ldif)
     => LET s == get_old_and_current_state(rec') IN
        s.err = "ok" /\ SameValues(s.old, s.new)]_vars

\* the new_state of the change-set the held callable sends
SentNew == pending.ldif.args[Len(pending.ldif.args)]

\* C25: every attribute a successful apply marks clean had its current value
\* in the change-set that was applied: an attribute edited after save_ldap()
\* built the change-set is not marked clean by the callable.
C25_CleanedOnlyIfSent ==
  [][(RecordStep /\ last'.op = "apply" /\ err' = "ok")
     => \A k \in DOMAIN rec.attrs :
          (rec.attrs[k].dirty /\ ~rec'.attrs[k].dirty)
          => (k \in DOMAIN SentNew /\ SentNew[k] = new_of(rec, k))]_vars

\* C26: when self_update ends, by returning or by raising, the record's mode
\* is 'normal'.
C26_SelfUpdateRestoresMode ==
  last.op = "self_update" => rec.mode = "normal"

====
